---- MODULE Spec2Model ----
(***************************************************************************)
(* Model of openspacee/ospagent:                                           *)
(*   pkg/kubernetes/informers.go       the informer registry: nine shared  *)
(*                                     informers started on one factory    *)
(*                                     and waited for, one after another   *)
(*   pkg/container/resource_actions.go the (resource, action) -> handler   *)
(*                                     dispatch table and its lookup       *)
(***************************************************************************)
EXTENDS Integers, Sequences, FiniteSets, TLC

(***************************************************************************)
(* Bounds of the model.                                                    *)
(***************************************************************************)
\* calls a direct caller of the exported New<Kind>Informer functions makes
MaxCalls == 2
\* GetRequestHandler calls the transport makes
MaxLookups == 2
\* initial lists the control plane fails
MaxOutages == 1
\* remote observers, and cache events fanned out to them
MaxObservers == 2
MaxEvents == 2

Nil == "nil"

(***************************************************************************)
(* pkg/kubernetes/informers.go                                             *)
(***************************************************************************)

\* NewInformerRegistry with the config map informer built before the
\* persistent volume informer.
KindOrder_ConfigMapEarlier ==
    << "pod", "namespace", "node", "configMap", "persistentVolume",
       "event", "deployment", "statefulSet", "daemonSet" >>

\* The order in which NewInformerRegistry calls the per-kind constructors.
KindOrder ==
    << "pod", "namespace", "node", "persistentVolume", "configMap",
       "event", "deployment", "statefulSet", "daemonSet" >>

Kinds == { KindOrder[i] : i \in 1..Len(KindOrder) }

\* Constructors that all build the one error text.
SyncError_TimedOut(k) == "timed out waiting for caches to sync"

\* The error each constructor builds when WaitForCacheSync returns false.
SyncError(k) ==
    IF k \in {"pod", "namespace"}
    THEN "timed out waiting for caches to sync"
    ELSE "time out waiting for caches to sync"

VARIABLES
    stopClosed,  \* stopCh has been closed
    informers,   \* factory.informers: kind -> number of shared informer
                 \* objects constructed for the kind (0: none yet)
    started,     \* factory.startedInformers
    runCount,    \* kind -> number of informer.Run goroutines launched
    running,     \* kinds whose informer.Run goroutine is alive (list & watch)
    synced,      \* kind -> informer.HasSynced()
    cur,         \* the constructor executing: a kind, or Nil
    pc,          \* its place in WaitForCacheSync: "check", "sleep", or "idle"
    hist,        \* results of the constructor calls that returned, in order
    regState,    \* NewInformerRegistry: "building", "ok", "err"; or "none",
                 \* when the exported constructors are called directly on
                 \* one factory and one stopCh
    registry,    \* the InformerRegistryImpl returned, field -> handle, or nil
    listFailed,  \* an initial list of the informer being waited for failed
    outages,     \* number of initial lists the control plane has failed
    got,         \* <<accessor, handle>> of the last accessor call
    ResourceActionHandler,  \* ResourceActions.ResourceActionHandler; empty
                            \* until NewResourceActions has built it
    req,         \* <<resource, action>> of the last GetRequestHandler call
    res,         \* what it returned
    lookups,     \* number of GetRequestHandler calls made
    subs,        \* the hub's subscribers: kind -> set of observers
    alive,       \* the observers whose connection is up
    received,    \* observer -> notifications it got for the last event
    lastEvent,   \* the last cache event fanned out, or nil
    events       \* number of cache events fanned out

informerVars ==
    << stopClosed, informers, started, runCount, running, synced,
       cur, pc, hist, regState, registry, listFailed, outages, got >>

dispatchVars == << ResourceActionHandler, req, res, lookups >>

hubVars == << subs, alive, received, lastEvent, events >>

vars == << informerVars, dispatchVars, hubVars >>

\* A constructor that builds a fresh informer on every call, as one that made
\* its own factory would.
InformerFor_New(inf, k) == [inf EXCEPT ![k] = @ + 1]

\* factory.Core().V1().Pods().Informer(): factory.InformerFor returns the
\* kind's shared informer, constructing it only when the factory has none.
InformerFor(inf, k) ==
    IF inf[k] > 0 THEN inf ELSE [inf EXCEPT ![k] = 1]

\* A factory start that launches every registered informer again.
ToStart_All(inf, st) == { k \in Kinds : inf[k] > 0 }

\* factory.Start(stopCh): the informers it launches, those registered with the
\* factory and not yet in startedInformers.
ToStart(inf, st) == { k \in Kinds : inf[k] > 0 /\ k \notin st }

\* The daemon set informer started on a channel of its own.
StoppedBy_NotDaemonSet(run) == run \ {"daemonSet"}

\* The Run goroutines that exit when stopCh is closed: every one, as each was
\* launched by factory.Start(stopCh) with the one channel all constructors get.
StoppedBy(run) == run

\* The handle a constructor returns: the kind's informer on the factory.
Handle(k) == << k, informers[k] >>

\* The nil informer a constructor returns with an error, and the nil registry.
NoHandle == << >>

NoRegistry == << >>

\* New<Kind>Informer up to WaitForCacheSync: obtain the informer, start the
\* factory, enter the wait.
Enter(k) ==
    LET inf == InformerFor(informers, k)
        ts  == ToStart(inf, started)
    IN /\ informers' = inf
       /\ synced' = [j \in Kinds |->
                        IF inf[j] # informers[j] THEN FALSE ELSE synced[j]]
       /\ started' = started \cup ts
       /\ runCount' = [j \in Kinds |->
                        IF j \in ts THEN runCount[j] + 1 ELSE runCount[j]]
       /\ running' = IF stopClosed THEN running ELSE running \cup ts
       /\ cur' = k
       /\ pc' = "check"
       /\ listFailed' = FALSE

\* A registry literal with the event and deployment informers crossed.
RegistryFields_Crossed ==
    [ podInformer              |-> "pod",
      nameSpaceInformer        |-> "namespace",
      nodeInformer             |-> "node",
      eventInformer            |-> "deployment",
      deploymentInformer       |-> "event",
      persistentVolumeInformer |-> "persistentVolume",
      configMapInformer        |-> "configMap",
      statefulSetInformer      |-> "statefulSet",
      daemonSetInformer        |-> "daemonSet" ]

\* The fields of InformerRegistryImpl, each with the local it is set from.
RegistryFields ==
    [ podInformer              |-> "pod",
      nameSpaceInformer        |-> "namespace",
      nodeInformer             |-> "node",
      eventInformer            |-> "event",
      deploymentInformer       |-> "deployment",
      persistentVolumeInformer |-> "persistentVolume",
      configMapInformer        |-> "configMap",
      statefulSetInformer      |-> "statefulSet",
      daemonSetInformer        |-> "daemonSet" ]

\* NewInformerRegistry calls the next constructor of KindOrder.
NewInformerRegistryCall ==
    /\ regState = "building"
    /\ cur = Nil
    /\ Len(hist) < Len(KindOrder)
    /\ Enter(KindOrder[Len(hist) + 1])
    /\ UNCHANGED << stopClosed, hist, regState, registry, outages,
                    got, dispatchVars, hubVars >>

\* A direct call of an exported constructor on the same factory and stopCh.
DirectCall(k) ==
    /\ regState = "none"
    /\ cur = Nil
    /\ Len(hist) < MaxCalls
    /\ Enter(k)
    /\ UNCHANGED << stopClosed, hist, regState, registry, outages,
                    got, dispatchVars, hubVars >>

\* What the caller does with a constructor's result: NewInformerRegistry
\* returns nil and the error on a failure, and the registry after the ninth.
Return(k, ok) ==
    LET h == hist \o << [ kind   |-> k,
                          ok     |-> ok,
                          handle |-> IF ok THEN Handle(k) ELSE NoHandle,
                          err    |-> IF ok THEN Nil ELSE SyncError(k),
                          \* what was the case as it returned
                          stopAt     |-> stopClosed,
                          syncedAt   |-> synced[k],
                          listFailed |-> listFailed ] >>
        handleOf(kind) ==
            (CHOOSE i \in 1..Len(h) : h[i].kind = kind /\ h[i].ok)
    IN /\ hist' = h
       /\ cur' = Nil
       /\ pc' = "idle"
       /\ IF regState # "building"
            THEN UNCHANGED << regState, registry >>
          ELSE IF ~ok
            THEN regState' = "err" /\ registry' = NoRegistry
          ELSE IF Len(h) = Len(KindOrder)
            THEN /\ regState' = "ok"
                 /\ registry' = [ f \in DOMAIN RegistryFields |->
                                    h[handleOf(RegistryFields[f])].handle ]
          ELSE UNCHANGED << regState, registry >>

\* WaitForCacheSync, the condition found true: the constructor returns its
\* informer and no error.
WaitSynced ==
    /\ cur # Nil
    /\ pc = "check"
    /\ synced[cur]
    /\ Return(cur, TRUE)
    /\ UNCHANGED << stopClosed, informers, started, runCount, running,
                    synced, listFailed, outages,
                    got, dispatchVars, hubVars >>

\* WaitForCacheSync, the condition found false: wait for the poll period or
\* for stopCh.
WaitNotYet ==
    /\ cur # Nil
    /\ pc = "check"
    /\ ~synced[cur]
    /\ pc' = "sleep"
    /\ UNCHANGED << stopClosed, informers, started, runCount, running,
                    synced, cur, hist, regState, registry, listFailed, outages,
                    got, dispatchVars, hubVars >>

\* WaitForCacheSync, the poll period over: check the condition again. Once
\* stopCh is closed the poller stops ticking; a tick already due may still be
\* taken before the close is seen.
WaitTick ==
    /\ cur # Nil
    /\ pc = "sleep"
    /\ ~stopClosed \/ synced[cur]
    /\ pc' = "check"
    /\ UNCHANGED << stopClosed, informers, started, runCount, running,
                    synced, cur, hist, regState, registry, listFailed, outages,
                    got, dispatchVars, hubVars >>

\* A constructor that ignores what WaitForCacheSync returned.
WaitStopped_ReturnsInformer ==
    /\ cur # Nil
    /\ pc = "sleep"
    /\ stopClosed
    /\ Return(cur, TRUE)
    /\ UNCHANGED << stopClosed, informers, started, runCount, running,
                    synced, listFailed, outages,
                    got, dispatchVars, hubVars >>

\* WaitForCacheSync, stopCh found closed: it returns false and the
\* constructor returns nil and its "timed out" error.
WaitStopped ==
    /\ cur # Nil
    /\ pc = "sleep"
    /\ stopClosed
    /\ Return(cur, FALSE)
    /\ UNCHANGED << stopClosed, informers, started, runCount, running,
                    synced, listFailed, outages,
                    got, dispatchVars, hubVars >>

\* The control plane answers a running informer's initial list.
CacheSynced(k) ==
    /\ k \in running
    /\ ~synced[k]
    /\ synced' = [synced EXCEPT ![k] = TRUE]
    /\ UNCHANGED << stopClosed, informers, started, runCount, running,
                    cur, pc, hist, regState, registry, listFailed, outages,
                    got, dispatchVars, hubVars >>

\* The control plane is unreachable and fails the initial list of the informer
\* being waited for: the informer's reflector logs the error and lists again
\* after a backoff; the constructor, polling HasSynced, sees nothing of it.
ListFails ==
    /\ cur # Nil
    /\ cur \in running
    /\ ~synced[cur]
    /\ outages < MaxOutages
    /\ listFailed' = TRUE
    /\ outages' = outages + 1
    /\ UNCHANGED << stopClosed, informers, started, runCount, running, synced,
                    cur, pc, hist, regState, registry, got, dispatchVars, hubVars >>

\* The accessors of InformerRegistryImpl, each with the field it returns.
Accessors ==
    [ PodInformer              |-> "podInformer",
      NamespaceInformer        |-> "nameSpaceInformer",
      NodeInformer             |-> "nodeInformer",
      EventInformer            |-> "eventInformer",
      DeploymentInformer       |-> "deploymentInformer",
      PersistentVolumeInformer |-> "persistentVolumeInformer",
      ConfigMapInformer        |-> "configMapInformer",
      StatefulSetInformer      |-> "statefulSetInformer",
      DaemonSetInformer        |-> "daemonSetInformer" ]

\* A resource module calls accessor a of the registry it was given.
Access(a) ==
    /\ regState = "ok"
    /\ got' = << a, registry[Accessors[a]] >>
    /\ UNCHANGED << stopClosed, informers, started, runCount, running, synced,
                    cur, pc, hist, regState, registry, listFailed, outages,
                    dispatchVars, hubVars >>

\* The owner of stopCh closes it.
CloseStop ==
    /\ ~stopClosed
    /\ stopClosed' = TRUE
    /\ running' = running \ StoppedBy(running)
    /\ UNCHANGED << informers, started, runCount, synced, cur, pc, hist,
                    regState, registry, listFailed, outages,
                    got, dispatchVars, hubVars >>

(***************************************************************************)
(* pkg/container/resource_actions.go                                       *)
(***************************************************************************)

LIST     == "list"
GET      == "get"
DELETE   == "delete"
UPDATE   == "update"
EXEC     == "exec"
STDIN    == "stdin"
OPENLOG  == "openLog"
CLOSELOG == "closeLog"

\* A nil map, and a map with no key: reading either yields the zero value.
EmptyMap == [x \in {} |-> Nil]

\* m[key] = val on a Go map.
Put(m, key, val) ==
    [x \in DOMAIN m \cup {key} |-> IF x = key THEN val ELSE m[x]]

\* A map read that answers a missing key with some entry of the map.
Index_Default(m, key, zero) ==
    IF key \in DOMAIN m THEN m[key]
    ELSE IF DOMAIN m = {} THEN zero
    ELSE m[CHOOSE x \in DOMAIN m : TRUE]

\* m[key] on a Go map (or a nil map): the value, or the zero value `zero`.
Index(m, key, zero) == IF key \in DOMAIN m THEN m[key] ELSE zero

\* The ActionHandler literals of NewResourceActions; a handler is named by
\* the method value bound to it.
watchActions == Put(EmptyMap, GET, "watch.WatchAction")

podActions ==
    Put(Put(Put(Put(Put(Put(Put(Put(EmptyMap,
        LIST, "pod.List"),
        GET, "pod.Get"),
        EXEC, "pod.Exec"),
        STDIN, "pod.ExecStdIn"),
        OPENLOG, "pod.OpenLog"),
        CLOSELOG, "pod.CloseLog"),
        DELETE, "pod.Delete"),
        UPDATE, "pod.Update")

\* The namespace module with a get handler registered beside list.
nsActions_WithGet == Put(Put(EmptyMap, LIST, "ns.List"), GET, "ns.Get")

nsActions == Put(EmptyMap, LIST, "ns.List")

nodeActions == Put(EmptyMap, LIST, "node.List")

configMapActions == Put(EmptyMap, LIST, "configMap.List")

\* A table with a module registered for a kind that has no informer.
actionHandlers_WithSecret ==
    Put(Put(Put(Put(Put(Put(EmptyMap,
        "watch", watchActions),
        "pod", podActions),
        "namespace", nsActions),
        "node", nodeActions),
        "configMap", configMapActions),
        "secret", Put(EmptyMap, LIST, "secret.List"))

\* The map NewResourceActions builds, assignment by assignment.
actionHandlers ==
    Put(Put(Put(Put(Put(EmptyMap,
        "watch", watchActions),
        "pod", podActions),
        "namespace", nsActions),
        "node", nodeActions),
        "configMap", configMapActions)

\* A lookup that ignores the resource: every action is answered from the pod
\* module's handlers.
GetRequestHandler_AnyKind(r, resource, action) ==
    Index(Index(r, "pod", EmptyMap), action, Nil)

\* r.ResourceActionHandler[resource][action]
GetRequestHandler(r, resource, action) ==
    Index(Index(r, resource, EmptyMap), action, Nil)

\* What the transport may ask for: the kinds of the table, the kinds that have
\* an informer, and a kind and actions nobody registers.
RequestKinds == {"watch", "unknown"} \cup Kinds

RequestActions ==
    {LIST, GET, DELETE, UPDATE, EXEC, STDIN, OPENLOG, CLOSELOG,
     "restart", "watch"}

NewResourceActions ==
    /\ ResourceActionHandler = EmptyMap
    /\ ResourceActionHandler' = actionHandlers
    /\ UNCHANGED << req, res, lookups, informerVars, hubVars >>

\* A lookup that makes an entry for a resource the table does not have.
Lookup_CreatesEntry(resource, action) ==
    /\ ResourceActionHandler # EmptyMap
    /\ lookups < MaxLookups
    /\ req' = << resource, action >>
    /\ res' = GetRequestHandler(ResourceActionHandler, resource, action)
    /\ lookups' = lookups + 1
    /\ ResourceActionHandler' =
          IF resource \in DOMAIN ResourceActionHandler
          THEN ResourceActionHandler
          ELSE Put(ResourceActionHandler, resource, EmptyMap)
    /\ UNCHANGED << informerVars, hubVars >>

Lookup(resource, action) ==
    /\ ResourceActionHandler # EmptyMap
    /\ lookups < MaxLookups
    /\ req' = << resource, action >>
    /\ res' = GetRequestHandler(ResourceActionHandler, resource, action)
    /\ lookups' = lookups + 1
    /\ UNCHANGED << ResourceActionHandler, informerVars, hubVars >>

(***************************************************************************)
(* The change notification hub: resource.NewWatchResource(sendResponse),   *)
(* which NewResourceActions builds and hands to the pod and namespace      *)
(* modules. Its code is in pkg/container/resource; it is modelled here     *)
(* from its specification.                                                 *)
(***************************************************************************)

Observers == 1..MaxObservers

\* The kinds whose modules NewResourceActions gives the hub to.
HubKinds == {"pod", "namespace"}

EventTypes == {"added", "modified", "deleted"}

NoEvent == [kind |-> Nil, type |-> Nil, targets |-> {}, up |-> {}, err |-> Nil]

\* A fan-out that gives up at the first observer whose send fails.
Deliver_StopAtFailure(targets, up) ==
    { o \in targets \cap up : \A f \in targets \ up : o < f }

\* The observers a fan-out to `targets` reaches: each send is made on its
\* own, and succeeds when the observer's connection is up.
Deliver(targets, up) == targets \cap up

\* The subscriber sets with the observers whose send failed removed.
Prune(sb, failed) == [k \in DOMAIN sb |-> sb[k] \ failed]

Subscribe(o, k) ==
    /\ o \in alive
    /\ o \notin subs[k]
    /\ subs' = [subs EXCEPT ![k] = @ \cup {o}]
    /\ UNCHANGED << alive, received, lastEvent, events, informerVars,
                    dispatchVars >>

Unsubscribe(o, k) ==
    /\ o \in alive
    /\ o \in subs[k]
    /\ subs' = [subs EXCEPT ![k] = @ \ {o}]
    /\ UNCHANGED << alive, received, lastEvent, events, informerVars,
                    dispatchVars >>

\* An observer's connection goes down; the hub finds out at its next send.
Disconnect(o) ==
    /\ o \in alive
    /\ alive' = alive \ {o}
    /\ UNCHANGED << subs, received, lastEvent, events, informerVars,
                    dispatchVars >>

\* An accepted add, update or delete of kind k: the object is sent to every
\* subscriber of k; a failing send removes that observer and is logged, and
\* no error is returned.
Notify(k, type) ==
    /\ events < MaxEvents
    /\ LET targets == subs[k]
           reached == Deliver(targets, alive)
       IN /\ received' = [o \in Observers |-> IF o \in reached THEN 1 ELSE 0]
          /\ subs' = Prune(subs, targets \ alive)
          /\ lastEvent' = [kind |-> k, type |-> type, targets |-> targets,
                           up |-> alive, err |-> Nil]
    /\ events' = events + 1
    /\ UNCHANGED << alive, informerVars, dispatchVars >>

HubInit ==
    /\ subs = [k \in HubKinds |-> {}]
    /\ alive = Observers
    /\ received = [o \in Observers |-> 0]
    /\ lastEvent = NoEvent
    /\ events = 0

InformerInit ==
    /\ stopClosed = FALSE
    /\ informers = [k \in Kinds |-> 0]
    /\ started = {}
    /\ runCount = [k \in Kinds |-> 0]
    /\ running = {}
    /\ synced = [k \in Kinds |-> FALSE]
    /\ cur = Nil
    /\ pc = "idle"
    /\ hist = << >>
    /\ regState \in {"building", "none"}
    /\ registry = NoRegistry
    /\ listFailed = FALSE
    /\ outages = 0
    /\ got = << >>

DispatchInit ==
    /\ ResourceActionHandler = EmptyMap
    /\ req = << >>
    /\ res = Nil
    /\ lookups = 0

Init == InformerInit /\ DispatchInit /\ HubInit

\* cache.WaitForCacheSync(stopCh, informer.HasSynced)
WaitForCacheSync ==
    \/ WaitSynced
    \/ WaitNotYet
    \/ WaitTick
    \/ WaitStopped

Step ==
    \/ NewInformerRegistryCall
    \/ \E k \in Kinds : DirectCall(k)
    \/ WaitForCacheSync

Env ==
    \/ \E k \in Kinds : CacheSynced(k)
    \/ CloseStop

Next ==
    \/ Step
    \/ Env
    \/ ListFails
    \/ \E a \in DOMAIN Accessors : Access(a)

Spec == Init /\ [][Next]_vars

\* The goroutine running a constructor is scheduled; the control plane and the
\* owner of stopCh owe nothing.
FairSpec == Spec /\ WF_vars(Step)

\* The agent's bootstrap and service: NewInformerRegistry runs, the dispatch
\* table is built, the transport looks handlers up.
DispatchNext ==
    \/ NewInformerRegistryCall
    \/ WaitForCacheSync
    \/ Env
    \/ NewResourceActions
    \/ \E resource \in RequestKinds, action \in RequestActions :
          Lookup(resource, action)

BootInit == Init /\ regState = "building"

DispatchSpec == BootInit /\ [][DispatchNext]_vars

HubNext ==
    \/ \E o \in Observers, k \in HubKinds : Subscribe(o, k)
    \/ \E o \in Observers, k \in HubKinds : Unsubscribe(o, k)
    \/ \E o \in Observers : Disconnect(o)
    \/ \E k \in HubKinds, type \in EventTypes : Notify(k, type)

HubSpec == BootInit /\ [][HubNext]_vars

(***************************************************************************)
(* The informer registry.                                                  *)
(***************************************************************************)

\* C3: a constructor blocks its caller only up to a bounded deadline: every
\* call that has entered the wait returns, also when the cache never reports
\* synced and stopCh is never closed.
C3_StartReturns == (cur # Nil) ~> (cur = Nil)

\* C4: when NewInformerRegistry has returned a registry and no error, every
\* one of the nine kinds is synced; when a kind failed to sync, it has
\* returned no registry and the error.
C4_ReadinessGate ==
    /\ regState = "ok" =>
          /\ DOMAIN registry = DOMAIN RegistryFields
          /\ \A k \in Kinds : synced[k]
    /\ (regState # "none" /\ \E i \in 1..Len(hist) : ~hist[i].ok) =>
          /\ regState = "err"
          /\ DOMAIN registry = {}
    /\ regState = "err" => DOMAIN registry = {}

\* NewInformerRegistry has returned the registry.
C4_Witness == regState = "ok" /\ Len(hist) = Len(KindOrder)

\* C6: after a constructor has failed with its "timed out" error, the kind's
\* informer remains valid for a retry: it is still listing and watching, or
\* is synced, so that a later call on the same factory and stopCh can return it.
C6_ValidAfterTimeout ==
    \A i \in 1..Len(hist) :
        ~hist[i].ok => (hist[i].kind \in running \/ synced[hist[i].kind])

\* C7: a second call for a kind that a first call returned synced returns the
\* same informer, and over all the calls on the factory each kind has one
\* informer object whose Run is launched at most once.
C7_StartIdempotent ==
    /\ \A k \in Kinds : runCount[k] <= 1 /\ informers[k] <= 1
    /\ \A i, j \in 1..Len(hist) :
          (i < j /\ hist[i].kind = hist[j].kind /\ hist[i].ok) =>
              /\ hist[j].ok
              /\ hist[j].handle = hist[i].handle

\* Two calls for one kind have returned.
C7_Witness ==
    /\ Len(hist) >= 2
    /\ hist[1].kind = hist[2].kind
    /\ hist[1].ok /\ hist[2].ok

\* Uninitialized -> Syncing -> Synced, read off the factory and the informer.
WatcherState(st, sy, k) ==
    IF k \notin st THEN "Uninitialized"
    ELSE IF ~sy[k] THEN "Syncing"
    ELSE "Synced"

\* C9: a kind's synced flag, once true, is true in every later state, and a
\* watcher only moves Uninitialized -> Syncing -> Synced, a step at a time.
C9_SyncedOnce ==
    [][ \A k \in Kinds :
          /\ synced[k] => synced'[k]
          /\ << WatcherState(started, synced, k),
                WatcherState(started', synced', k) >> \in
                  { << "Uninitialized", "Uninitialized" >>,
                    << "Uninitialized", "Syncing" >>,
                    << "Syncing", "Syncing" >>,
                    << "Syncing", "Synced" >>,
                    << "Synced", "Synced" >> } ]_vars

\* A synced kind has been asked for again, and a synced kind has lived
\* through the start of another kind.
C9_Witness ==
    /\ Len(hist) >= 2
    /\ hist[1].ok
    /\ synced[hist[1].kind]
    /\ cur = Nil

\* C10: once stopCh is closed no informer runs and every constructor still
\* waiting returns; informers stop only all together, at the close of stopCh.
C10_SharedShutdown ==
    /\ [](stopClosed => running = {})
    /\ [][ running' # running =>
              \/ running \subseteq running'
              \/ running' = {} /\ ~stopClosed /\ stopClosed' ]_vars
    /\ (stopClosed /\ cur # Nil) ~> (cur = Nil)

\* stopCh was closed with several informers started and a constructor
\* waiting, which has returned its error.
C10_Witness ==
    /\ stopClosed
    /\ Cardinality(started) >= 2
    /\ cur = Nil
    /\ Len(hist) >= 2
    /\ ~hist[Len(hist)].ok

\* C13: a control-plane outage during a kind's initial list makes the
\* constructor report an error, one that is not its sync-timeout error; and a
\* call that failed is not made again by NewInformerRegistry.
C13_OutageReported ==
    /\ \A i \in 1..Len(hist) :
          hist[i].listFailed =>
              /\ ~hist[i].ok
              /\ hist[i].err \notin { SyncError(k) : k \in Kinds }
    /\ regState \in {"building", "ok", "err"} =>
          \A i, j \in 1..Len(hist) : i # j => hist[i].kind # hist[j].kind

\* The kind each accessor of the InformerRegistry interface is typed to return.
AccessorKind ==
    [ PodInformer              |-> "pod",
      NamespaceInformer        |-> "namespace",
      NodeInformer             |-> "node",
      EventInformer            |-> "event",
      DeploymentInformer       |-> "deployment",
      PersistentVolumeInformer |-> "persistentVolume",
      ConfigMapInformer        |-> "configMap",
      StatefulSetInformer      |-> "statefulSet",
      DaemonSetInformer        |-> "daemonSet" ]

\* C14: every accessor returns the informer that the constructor of its own
\* kind returned synced, and once the registry is returned no step changes it,
\* so an accessor returns the same handle at every call.
C14_AccessorsOwnKind ==
    /\ [](Len(got) = 2 =>
            /\ got[2] # NoHandle
            /\ got[2][1] = AccessorKind[got[1]]
            /\ \E i \in 1..Len(hist) :
                  /\ hist[i].kind = AccessorKind[got[1]]
                  /\ hist[i].ok
                  /\ hist[i].handle = got[2])
    /\ [][ regState = "ok" => (regState' = "ok" /\ registry' = registry) ]_vars
    /\ [][ (Len(got) = 2 /\ Len(got') = 2 /\ got[1] = got'[1])
              => got' = got ]_vars

\* The event accessor has been called.
C14_Witness ==
    /\ Len(got) = 2
    /\ got[1] = "EventInformer"
    /\ got[2][1] = "event"

\* The order C16 states.
ClaimedOrder ==
    << "pod", "namespace", "node", "persistentVolume", "configMap",
       "event", "deployment", "statefulSet", "daemonSet" >>

\* C16: in NewInformerRegistry a kind's informer is constructed or started
\* only when every kind before it in the order pod, namespace, node,
\* persistent volume, config map, event, deployment, stateful set, daemon set
\* has returned synced; and when a kind has failed, no kind after it is
\* constructed or started.
C16_OneAfterAnother ==
    regState # "none" =>
        /\ \A i \in 1..Len(ClaimedOrder) :
              (informers[ClaimedOrder[i]] > 0 \/ ClaimedOrder[i] \in started)
                  => \A j \in 1..(i - 1) :
                        /\ synced[ClaimedOrder[j]]
                        /\ hist[j].kind = ClaimedOrder[j]
                        /\ hist[j].ok
        /\ regState = "err" =>
              /\ hist[Len(hist)].kind = ClaimedOrder[Len(hist)]
              /\ ~hist[Len(hist)].ok
              /\ \A i \in (Len(hist) + 1)..Len(ClaimedOrder) :
                    /\ informers[ClaimedOrder[i]] = 0
                    /\ ClaimedOrder[i] \notin started

\* NewInformerRegistry has failed at the config map informer, after four
\* kinds synced.
C16_Witness ==
    /\ regState = "err"
    /\ Len(hist) = 5
    /\ hist[5].kind = "configMap"

\* C17 as claimed: a constructor returns an error exactly when stopCh was
\* closed before its kind's cache reported synced, returns the informer
\* whenever the cache synced first, and the error is "timed out waiting for
\* caches to sync".
C17_Original ==
    \A i \in 1..Len(hist) :
        /\ ~hist[i].ok <=> (hist[i].stopAt /\ ~hist[i].syncedAt)
        /\ ~hist[i].ok => hist[i].err = "timed out waiting for caches to sync"

\* C17, amended: a constructor returns an error only when stopCh was closed
\* before it returned, and always when stopCh was closed before the cache
\* synced; it returns the informer only when the cache is synced (a cache that
\* syncs between two polls, with stopCh closed before the next, may yield
\* either); the error is "timed out waiting for caches to sync" for pod and
\* namespace and "time out waiting for caches to sync" for the other seven.
C17_ErrorOnlyOnStop ==
    \A i \in 1..Len(hist) :
        /\ ~hist[i].ok => hist[i].stopAt
        /\ hist[i].ok => hist[i].syncedAt
        /\ (hist[i].stopAt /\ ~hist[i].syncedAt) => ~hist[i].ok
        /\ ~hist[i].stopAt => hist[i].ok
        /\ hist[i].ok => hist[i].err = Nil
        /\ ~hist[i].ok =>
              hist[i].err =
                  IF hist[i].kind \in {"pod", "namespace"}
                  THEN "timed out waiting for caches to sync"
                  ELSE "time out waiting for caches to sync"

\* A constructor other than pod's and namespace's has returned its error with
\* the cache synced, and one has returned its informer with stopCh closed.
C17_Witness ==
    \/ \E i \in 1..Len(hist) :
          ~hist[i].ok /\ hist[i].syncedAt /\ hist[i].kind = "node"
    \/ \E i \in 1..Len(hist) :
          hist[i].ok /\ hist[i].stopAt /\ hist[i].kind = "configMap"

(***************************************************************************)
(* The dispatch table.                                                     *)
(***************************************************************************)

\* The pairs NewResourceActions registers.
Registered(r, resource, action) ==
    /\ resource \in DOMAIN r
    /\ action \in DOMAIN r[resource]

\* C1: for every registered (kind, action) pair the lookup returns exactly
\* the handler registered for that pair: not the handler the same action has
\* under another kind, and not the handler another action has under the same
\* kind.
C1_LookupReturnsRegistered ==
    \A k \in DOMAIN actionHandlers : \A a \in DOMAIN actionHandlers[k] :
        req = << k, a >> =>
            /\ res = actionHandlers[k][a]
            /\ \A k2 \in DOMAIN actionHandlers \ {k} :
                   a \in DOMAIN actionHandlers[k2]
                       => res # actionHandlers[k2][a]
            /\ \A a2 \in DOMAIN actionHandlers[k] \ {a} :
                   res # actionHandlers[k][a2]

\* A registered pair whose action is registered under other kinds too, and
\* one whose kind has other actions, have been looked up.
C1_Witness ==
    \/ req = << "namespace", LIST >> /\ res = "ns.List"
    \/ req = << "pod", GET >> /\ res = "pod.Get"

\* C2: for every pair that is not registered, a kind with no entry at all
\* included, the lookup returns nil: it completes, and what it yields is no
\* handler.
C2_LookupUnregisteredIsNil ==
    (lookups > 0 /\ ~Registered(ResourceActionHandler, req[1], req[2]))
        => res = Nil

\* An unknown kind, and an unregistered action of a known kind, have been
\* looked up.
C2_Witness ==
    \/ req = << "unknown", LIST >> /\ res = Nil
    \/ req = << "node", GET >> /\ res = Nil

\* The scenario of C5: pod and namespace are registered in the table, and the
\* informers of both have been started and report synced.
ScenarioReady ==
    /\ synced["pod"] /\ synced["namespace"]
    /\ {"pod", "namespace"} \subseteq started
    /\ {"pod", "namespace"} \subseteq DOMAIN ResourceActionHandler

\* C5 as claimed: in the scenario, ("pod", "list") and ("namespace", "get")
\* yield handlers and ("pod", "restart") yields nil.
C5_Scenario_Original ==
    ScenarioReady =>
        /\ req = << "pod", LIST >> => res # Nil
        /\ req = << "namespace", GET >> => res # Nil
        /\ req = << "pod", "restart" >> => res = Nil

\* C5, amended: in the scenario, ("pod", "list") and ("namespace", "list")
\* yield the handlers pod.List and ns.List, and ("pod", "restart") and
\* ("namespace", "get") yield nil: the namespace module registers list only.
C5_Scenario ==
    ScenarioReady =>
        /\ req = << "pod", LIST >> => res = "pod.List"
        /\ req = << "namespace", LIST >> => res = "ns.List"
        /\ req = << "pod", "restart" >> => res = Nil
        /\ req = << "namespace", GET >> => res = Nil

\* In the scenario, ("namespace", "get") has been looked up.
C5_Witness ==
    ScenarioReady /\ req = << "namespace", GET >> /\ res = Nil

\* C11: once NewResourceActions has built the table, no step changes it: the
\* kinds, the actions of each kind and every handler stay as built through
\* every lookup, of registered pairs, unregistered actions and unknown kinds.
C11_TableImmutable ==
    /\ [](ResourceActionHandler \in {EmptyMap, actionHandlers})
    /\ [][ ResourceActionHandler # EmptyMap =>
              ResourceActionHandler' = ResourceActionHandler ]_vars

\* An unknown kind has been looked up after another lookup, and the table is
\* the one that was built.
C11_Witness ==
    /\ lookups >= 2
    /\ req[1] = "unknown"
    /\ DOMAIN ResourceActionHandler = DOMAIN actionHandlers

\* The kinds of table r that have list or get registered.
CacheReadingKinds(r) ==
    { k \in DOMAIN r : LIST \in DOMAIN r[k] \/ GET \in DOMAIN r[k] }

\* The registry holds the informer of kind k.
HasWatcher(k) ==
    \E f \in DOMAIN registry :
        RegistryFields[f] = k /\ registry[f] # NoHandle /\ registry[f][1] = k

\* C12 as claimed: every kind of the table with list or get registered has
\* its informer in the registry NewInformerRegistry returned.
C12_Original ==
    (regState = "ok" /\ ResourceActionHandler # EmptyMap) =>
        \A k \in CacheReadingKinds(ResourceActionHandler) : HasWatcher(k)

\* C12, amended: every kind of the table with list or get registered, other
\* than the entry "watch" (whose get is the subscription watch.WatchAction),
\* has its informer in the registry NewInformerRegistry returned.
C12_KindsHaveWatcher ==
    (regState = "ok" /\ ResourceActionHandler # EmptyMap) =>
        \A k \in CacheReadingKinds(ResourceActionHandler) \ {"watch"} :
            HasWatcher(k)

\* The registry has been returned and the table built.
C12_Witness ==
    /\ regState = "ok"
    /\ CacheReadingKinds(ResourceActionHandler) \ {"watch"} # {}

(***************************************************************************)
(* The change notification hub.                                            *)
(***************************************************************************)

\* C15: when a send to a subscribed observer fails during the fan-out of an
\* event, every other subscriber of the kind still gets exactly one
\* notification of the event, the failing observer is removed from the
\* subscribers, and no error is returned.
C15_FanOutIsolated ==
    events > 0 =>
        /\ \A o \in lastEvent.targets \cap lastEvent.up : received[o] = 1
        /\ \A o \in lastEvent.targets \ lastEvent.up :
              /\ received[o] = 0
              /\ \A k \in HubKinds : o \notin subs[k]
        /\ \A o \in Observers \ lastEvent.targets : received[o] = 0
        /\ lastEvent.err = Nil

\* An event was fanned out to two subscribers of which the first in order
\* was disconnected.
C15_Witness ==
    /\ events > 0
    /\ \E f \in lastEvent.targets \ lastEvent.up :
          \E o \in lastEvent.targets \cap lastEvent.up : f < o

====
